---- MODULE Spec2Model ----
(***************************************************************************)
(* Model of class Process (src/process_win.hpp): a controller of one child *)
(* process on Windows.  Two groups of state:                               *)
(*   - the read path: readProcess, its asynchronous read task, the child's *)
(*     stdout pipe (specification SpecRead);                               *)
(*   - the life cycle: init / killProcess / restart / writeProcess /       *)
(*     ~Process over the OS handle table, the child processes and the      *)
(*     process registry fast_chess::process_list (specification Spec).     *)
(* SpecReadLong is the read path on longer streams of fewer bytes values,  *)
(* SpecShared the life cycle of two controllers on one registry.           *)
(***************************************************************************)
EXTENDS Integers, Sequences, FiniteSets, TLC

\* ------------------------------------------------------------------ bounds
\* longest child output stream (bytes) the read path is checked on
MaxLen == 4
\* number of readProcess calls made in a row on one stream
MaxCalls == 2

\* handle values the OS hands out are 1..MaxHandle (0 is NULL)
MaxHandle == 6
\* number of init calls (direct or through restart) in one run
MaxInits == 2

\* longest child output stream (bytes) consecutive reads are checked on
MaxLongLen == 5

\* sizeof(buffer) of the read task, the most one ReadFile returns
BufferSize == 4096

\* ------------------------------------------------------------- read path
VARIABLES
    childOut,     \* all the bytes the child writes to its stdout, in order
    written,      \* how many of them the child has written into the pipe
    consumed,     \* how many of them ReadFile has handed to a read task
    childExited,  \* the child has exited: the pipe's write end is closed
    last_word,    \* readProcess parameter: the terminator prefix
    threshold,    \* readProcess parameter: 0, or a positive timeout
    elapsed,      \* the deadline of the wait_for of this call has passed
    pc,           \* where the caller of readProcess is
    fut,          \* what readFuture.wait_for(threshold) returned
    task,         \* the std::async read task: "none", "running", "done"
    taskRet,      \* the Status the read task returned
    currentLine,  \* the read task's local currentLine
    lines,        \* the caller's vector `lines` (captured by reference)
    ret,          \* the Status the last readProcess call returned
    nCalls        \* readProcess calls started so far

\* What the read path has done so far (no variable of the program: kept to
\* state what a call read and returned).
VARIABLES
    callStart,    \* `consumed` when the readProcess call under way started
    matchEnd,     \* position in childOut of the line terminator at which the
                  \* read task returned Status::OK (0: it has not)
    carried,      \* in this call a ReadFile returned bytes while currentLine
                  \* held the start of a line from an earlier ReadFile
    history       \* the readProcess calls that returned, oldest first

readGhost == <<callStart, matchEnd, carried, history>>

readVars == <<childOut, written, consumed, childExited, last_word, threshold,
              elapsed, pc, fut, task, taskRet, currentLine, lines, ret, nCalls,
              readGhost>>

\* ------------------------------------------------------------ life cycle
VARIABLES
    ctl,          \* per controller: the data members of class Process
    htab,         \* the host's OS handle table: handle value -> slot
    running,      \* the child processes (by the init that spawned them) running
    terminated,   \* the child processes TerminateProcess was called on
    cmdline,      \* what the last CreateProcessA call was asked to run
    process_list, \* fast_chess::process_list, the registry of process handles
    nInit,        \* init calls made so far
    garbage,      \* the value an uninitialized HANDLE variable holds in this run
    last          \* the last operation: its name, its controller, whether the
                  \* controller was initialized when it was called, its events

lifeVars == <<ctl, htab, running, terminated, cmdline, process_list, nInit,
              garbage, last>>

vars == <<readVars, lifeVars>>

LF == "\n"
CR == "\r"
\* the bytes a child writes: two letters and the two line terminators
Chars == {"a", "b", LF, CR}
\* the terminator prefixes the caller passes
LastWords == {<<"a">>, <<"a", "b">>}
\* threshold.count(): 0, or some positive number of milliseconds
Thresholds == {0, 1}

Min(x, y) == IF x <= y THEN x ELSE y

SeqsUpTo(S, n) == UNION {[1..k -> S] : k \in 0..n}

\* std::string::rfind(last_word, 0) == 0: the line starts with last_word
StartsWith(line, w) ==
    /\ Len(w) <= Len(line)
    /\ SubSeq(line, 1, Len(w)) = w

\* The for loop without `if (currentLine.empty()) continue;`
RECURSIVE ScanBufferKeepsEmpty(_, _, _, _)
ScanBufferKeepsEmpty(buf, cur, ls, lw) ==
    IF buf = <<>>
    THEN [currentLine |-> cur, lines |-> ls, matched |-> FALSE, rest |-> <<>>]
    ELSE IF Head(buf) # LF /\ Head(buf) # CR
    THEN ScanBufferKeepsEmpty(Tail(buf), Append(cur, Head(buf)), ls, lw)
    ELSE IF StartsWith(cur, lw)
    THEN [currentLine |-> cur, lines |-> Append(ls, cur), matched |-> TRUE,
          rest |-> Tail(buf)]
    ELSE ScanBufferKeepsEmpty(Tail(buf), <<>>, Append(ls, cur), lw)

\* The for loop with '\n' as the only line terminator
RECURSIVE ScanBufferLfOnly(_, _, _, _)
ScanBufferLfOnly(buf, cur, ls, lw) ==
    IF buf = <<>>
    THEN [currentLine |-> cur, lines |-> ls, matched |-> FALSE, rest |-> <<>>]
    ELSE IF Head(buf) # LF
    THEN ScanBufferLfOnly(Tail(buf), Append(cur, Head(buf)), ls, lw)
    ELSE IF cur = <<>>
    THEN ScanBufferLfOnly(Tail(buf), cur, ls, lw)
    ELSE IF StartsWith(cur, lw)
    THEN [currentLine |-> cur, lines |-> Append(ls, cur), matched |-> TRUE,
          rest |-> Tail(buf)]
    ELSE ScanBufferLfOnly(Tail(buf), <<>>, Append(ls, cur), lw)

\* The for loop of the read task over the bytes of one ReadFile call.
\* Returns the task's currentLine and lines afterwards, whether the loop
\* ended in `return Status::OK`, and the bytes of the buffer the loop never
\* looked at (those after the terminator of the matching line: they go away
\* with the task's buffer).
RECURSIVE ScanBuffer(_, _, _, _)
ScanBuffer(buf, cur, ls, lw) ==
    IF buf = <<>>
    THEN [currentLine |-> cur, lines |-> ls, matched |-> FALSE, rest |-> <<>>]
    ELSE IF Head(buf) # LF /\ Head(buf) # CR
    THEN ScanBuffer(Tail(buf), Append(cur, Head(buf)), ls, lw)
    ELSE IF cur = <<>>
    THEN ScanBuffer(Tail(buf), cur, ls, lw)
    ELSE IF StartsWith(cur, lw)
    THEN [currentLine |-> cur, lines |-> Append(ls, cur), matched |-> TRUE,
          rest |-> Tail(buf)]
    ELSE ScanBuffer(Tail(buf), <<>>, Append(ls, cur), lw)

InitRead ==
    /\ childOut \in SeqsUpTo(Chars, MaxLen)
    /\ written = 0
    /\ consumed = 0
    /\ childExited = FALSE
    /\ last_word = <<>>
    /\ threshold = 0
    /\ elapsed = FALSE
    /\ pc = "idle"
    /\ fut = "none"
    /\ task = "none"
    /\ taskRet = "none"
    /\ currentLine = <<>>
    /\ lines = <<>>
    /\ ret = "none"
    /\ nCalls = 0
    /\ callStart = 0
    /\ matchEnd = 0
    /\ carried = FALSE
    /\ history = <<>>

\* The child writes k more bytes of its output into the pipe.
ChildWrite(k) ==
    /\ ~childExited
    /\ written + k <= Len(childOut)
    /\ written' = written + k
    /\ UNCHANGED <<childOut, consumed, childExited, last_word, threshold, elapsed,
                   pc, fut, task, taskRet, currentLine, lines, ret, nCalls>>
    /\ UNCHANGED readGhost
    /\ UNCHANGED lifeVars

\* The child exits (or closes its stdout): the write end of the pipe closes.
ChildExit ==
    /\ ~childExited
    /\ childExited' = TRUE
    /\ UNCHANGED <<childOut, written, consumed, last_word, threshold, elapsed,
                   pc, fut, task, taskRet, currentLine, lines, ret, nCalls>>
    /\ UNCHANGED readGhost
    /\ UNCHANGED lifeVars

\* readProcess up to and including std::async: clears lines, starts the task.
\* wait_for(0) has its deadline at once.
ReadProcessCall(lw, th) ==
    /\ pc = "idle"
    /\ nCalls < MaxCalls
    /\ last_word' = lw
    /\ threshold' = th
    /\ elapsed' = (th = 0)
    /\ lines' = <<>>
    /\ currentLine' = <<>>
    /\ task' = "running"
    /\ taskRet' = "none"
    /\ fut' = "none"
    /\ ret' = "none"
    /\ pc' = "wait_for"
    /\ nCalls' = nCalls + 1
    /\ callStart' = consumed
    /\ matchEnd' = 0
    /\ carried' = FALSE
    /\ UNCHANGED <<childOut, written, consumed, childExited, history>>
    /\ UNCHANGED lifeVars

\* The while loop with currentLine declared inside it: every ReadFile starts
\* a new line
ReadFileOkFreshLine(n) ==
    /\ task = "running"
    /\ n <= Min(written - consumed, BufferSize)
    /\ LET buf == SubSeq(childOut, consumed + 1, consumed + n)
           r   == ScanBuffer(buf, <<>>, lines, last_word)
       IN /\ consumed' = consumed + n
          /\ currentLine' = r.currentLine
          /\ lines' = r.lines
          /\ task' = IF r.matched THEN "done" ELSE "running"
          /\ taskRet' = IF r.matched THEN "OK" ELSE taskRet
          /\ matchEnd' = IF r.matched THEN consumed + n - Len(r.rest) ELSE matchEnd
          /\ carried' = (carried \/ (n > 0 /\ currentLine # <<>>))
    /\ UNCHANGED <<callStart, history>>
    /\ UNCHANGED <<childOut, written, childExited, last_word, threshold, elapsed,
                   pc, fut, ret, nCalls>>
    /\ UNCHANGED lifeVars

\* One iteration of the task's while loop whose ReadFile succeeds with n bytes
\* (n = 0: `continue`), followed by the for loop over them.
ReadFileOk(n) ==
    /\ task = "running"
    /\ n <= Min(written - consumed, BufferSize)
    /\ LET buf == SubSeq(childOut, consumed + 1, consumed + n)
           r   == ScanBuffer(buf, currentLine, lines, last_word)
       IN /\ consumed' = consumed + n
          /\ currentLine' = r.currentLine
          /\ lines' = r.lines
          /\ task' = IF r.matched THEN "done" ELSE "running"
          /\ taskRet' = IF r.matched THEN "OK" ELSE taskRet
          /\ matchEnd' = IF r.matched THEN consumed + n - Len(r.rest) ELSE matchEnd
          /\ carried' = (carried \/ (n > 0 /\ currentLine # <<>>))
    /\ UNCHANGED <<callStart, history>>
    /\ UNCHANGED <<childOut, written, childExited, last_word, threshold, elapsed,
                   pc, fut, ret, nCalls>>
    /\ UNCHANGED lifeVars

\* ReadFile fails (the pipe is empty and its write end is closed): the task
\* returns Status::ERR.
ReadFileFail ==
    /\ task = "running"
    /\ written = consumed
    /\ childExited
    /\ task' = "done"
    /\ taskRet' = "ERR"
    /\ UNCHANGED <<childOut, written, consumed, childExited, last_word, threshold,
                   elapsed, pc, fut, currentLine, lines, ret, nCalls>>
    /\ UNCHANGED readGhost
    /\ UNCHANGED lifeVars

\* The deadline of a positive threshold passes while the caller waits.
DeadlinePasses ==
    /\ pc = "wait_for"
    /\ ~elapsed
    /\ elapsed' = TRUE
    /\ UNCHANGED <<childOut, written, consumed, childExited, last_word, threshold,
                   pc, fut, task, taskRet, currentLine, lines, ret, nCalls>>
    /\ UNCHANGED readGhost
    /\ UNCHANGED lifeVars

\* readFuture.wait_for(threshold) returns: ready when the task has finished,
\* timeout when the deadline passed first.
WaitFor ==
    /\ pc = "wait_for"
    /\ \/ task = "done" /\ fut' = "ready"
       \/ task # "done" /\ elapsed /\ fut' = "timeout"
    /\ pc' = "return"
    /\ UNCHANGED <<childOut, written, consumed, childExited, last_word, threshold,
                   elapsed, task, taskRet, currentLine, lines, ret, nCalls>>
    /\ UNCHANGED readGhost
    /\ UNCHANGED lifeVars

\* The return statement if readFuture's destructor did not wait for the task
ReadProcessReturnDetached ==
    /\ pc = "return"
    /\ ret' = IF fut = "timeout" THEN "TIMEOUT" ELSE "OK"
    /\ pc' = "idle"
    /\ history' = Append(history, [ret |-> ret', taskRet |-> taskRet,
                                   lines |-> lines, from |-> callStart,
                                   upto |-> matchEnd])
    /\ UNCHANGED <<callStart, matchEnd, carried>>
    /\ UNCHANGED <<childOut, written, consumed, childExited, last_word, threshold,
                   elapsed, fut, task, taskRet, currentLine, lines, nCalls>>
    /\ UNCHANGED lifeVars

\* The return statement: TIMEOUT when wait_for timed out, OK otherwise (the
\* task's Status is never read).  Leaving the function destroys readFuture,
\* and the destructor of a future from std::async(std::launch::async, ...)
\* blocks until the task has finished.
ReadProcessReturn ==
    /\ pc = "return"
    /\ task = "done"
    /\ ret' = IF fut = "timeout" THEN "TIMEOUT" ELSE "OK"
    /\ pc' = "idle"
    /\ history' = Append(history, [ret |-> ret', taskRet |-> taskRet,
                                   lines |-> lines, from |-> callStart,
                                   upto |-> matchEnd])
    /\ UNCHANGED <<callStart, matchEnd, carried>>
    /\ UNCHANGED <<childOut, written, consumed, childExited, last_word, threshold,
                   elapsed, fut, task, taskRet, currentLine, lines, nCalls>>
    /\ UNCHANGED lifeVars

NextRead ==
    \/ \E k \in 1..MaxLen : ChildWrite(k)
    \/ ChildExit
    \/ \E lw \in LastWords, th \in Thresholds : ReadProcessCall(lw, th)
    \/ \E n \in 0..MaxLen : ReadFileOk(n)
    \/ ReadFileFail
    \/ DeadlinePasses
    \/ WaitFor
    \/ ReadProcessReturn


\* ------------------------------------------------------- life cycle: the OS
NULL == 0
Handles == 1..MaxHandle
\* what an uninitialized HANDLE variable may hold
HandleVals == {NULL} \cup Handles
\* the controllers (one Process object)
Controllers == {1}
\* (command, args, log_name) triples init is called with
Launches == {<<"engine", "x", "log1">>, <<"other", "y", "log2">>}
NoObj == [gen |-> 0, kind |-> "none"]
FreeSlot == [open |-> FALSE, obj |-> NoObj]

\* The state the operations of class Process act on, as one record; `events`
\* collects what the operation under way met: OS calls that failed, OS calls
\* on a dangling handle, assertions that failed.
World ==
    [ctl |-> ctl, htab |-> htab, running |-> running, terminated |-> terminated,
     cmdline |-> cmdline, process_list |-> process_list, nInit |-> nInit,
     garbage |-> garbage, events |-> {}]

Event(w, what, site) ==
    [w EXCEPT !.events = @ \cup {[what |-> what, site |-> site, kind |-> "none"]}]

\* h is an open handle of the host process
IsOpen(w, h) == h \in Handles /\ w.htab[h].open
\* h was an open handle once and has been closed since (a dangling value)
IsStale(w, h) == h \in Handles /\ ~w.htab[h].open /\ w.htab[h].obj # NoObj
\* the values the OS may give the next handle
FreeValues(w) == {h \in Handles : ~w.htab[h].open}

\* The OS creates a handle with value h for object o (which init obtained
\* it, and as what).
OsOpen(w, h, o) == [w EXCEPT !.htab[h] = [open |-> TRUE, obj |-> o]]

\* An OS call `what` at `site` on handle value h: noted when h is dangling,
\* with the kind of handle h was.
OsUse(w, h, what, site) ==
    IF IsStale(w, h)
    THEN [w EXCEPT !.events = @ \cup {[what |-> what, site |-> site,
                                       kind |-> w.htab[h].obj.kind]}]
    ELSE w

\* CloseHandle(h)
CloseHandle(w, h, site) ==
    IF IsOpen(w, h)
    THEN [w EXCEPT !.htab[h].open = FALSE]
    ELSE OsUse(w, h, "CloseHandle", site)

\* h is an open handle of a child process
IsProcessHandle(w, h) == IsOpen(w, h) /\ w.htab[h].obj.kind = "hProcess"

\* GetExitCodeProcess(h, &exitCode) with exitCode = 0 before the call:
\* TRUE iff exitCode == STILL_ACTIVE afterwards.  On an invalid handle the call
\* fails and exitCode stays 0.
StillActive(w, h) == IsProcessHandle(w, h) /\ w.htab[h].obj.gen \in w.running

\* TerminateProcess(h, 0)
TerminateProcess(w, h, site) ==
    IF IsProcessHandle(w, h)
    THEN LET g  == w.htab[h].obj.gen
             w1 == IF g \in w.terminated
                   THEN Event(w, "TerminateProcess again", site) ELSE w
         IN [w1 EXCEPT !.running = @ \ {g}, !.terminated = @ \cup {g}]
    ELSE OsUse(w, h, "TerminateProcess", site)

\* The OS gives a new handle the lowest value not in use, so that a value
\* is used again as soon as it is free.
LowestFree(w) == CHOOSE h \in FreeValues(w) : \A k \in FreeValues(w) : h <= k

\* CreatePipe(&rd, &wr, &sa, 0) by init number g: the world afterwards and the
\* values of rd and wr.  It fails when the OS refuses (ok = FALSE) or has
\* fewer than two handle values left; rd and wr then keep what they held, and
\* they were never initialized.
CreatePipe(w, g, rdKind, wrKind, ok) ==
    IF ok /\ Cardinality(FreeValues(w)) >= 2
    THEN LET r  == LowestFree(w)
             w1 == OsOpen(w, r, [gen |-> g, kind |-> rdKind])
             x  == LowestFree(w1)
         IN [w |-> OsOpen(w1, x, [gen |-> g, kind |-> wrKind]), rd |-> r, wr |-> x]
    ELSE [w |-> Event(w, "CreatePipe failed", "init"),
          rd |-> w.garbage, wr |-> w.garbage]

\* CreateProcessA(...) by init number g with pi zeroed before the call: the
\* world afterwards and pi.hProcess, pi.hThread.  On failure pi stays zero.
CreateProcessA(w, g, launch, ok) ==
    LET w0 == [w EXCEPT !.cmdline = <<launch[1], launch[2]>>]
    IN IF ok /\ Cardinality(FreeValues(w)) >= 2
       THEN LET hp == LowestFree(w0)
                w1 == OsOpen(w0, hp, [gen |-> g, kind |-> "hProcess"])
                ht == LowestFree(w1)
            IN [w |-> [OsOpen(w1, ht, [gen |-> g, kind |-> "hThread"])
                         EXCEPT !.running = @ \cup {g}],
                hProcess |-> hp, hThread |-> ht]
       ELSE [w |-> Event(w0, "CreateProcessA failed", "init"),
             hProcess |-> NULL, hThread |-> NULL]

\* process_list.push / process_list.remove: the registry holds handle values
\* (util/thread_vector.hpp is not part of the sources; modelled as a
\* collection in which a value is present or absent)
RegistryPush(reg, h) == reg \cup {h}
RegistryRemove(reg, h) == reg \ {h}

\* ----------------------------------------------- life cycle: class Process
\* assert(cond) at `site`: a failed assertion is recorded
AssertThat(w, cond, site) == IF cond THEN w ELSE Event(w, "assert", site)

\* The tail of init once the three OS objects were asked for: closes the
\* child's ends of the pipes, stores the handles, registers the process
\* handle and sets is_initalized_.
InitFinish(w, c, p1, p2, cp) ==
    LET w1 == CloseHandle(w, p1.wr, "init")
        w2 == CloseHandle(w1, p2.rd, "init")
    IN [w2 EXCEPT !.ctl[c].hProcess = cp.hProcess,
                  !.ctl[c].hThread = cp.hThread,
                  !.ctl[c].child_std_out_ = p1.rd,
                  !.ctl[c].child_std_in_ = p2.wr,
                  !.process_list = RegistryPush(@, cp.hProcess),
                  !.ctl[c].is_initalized_ = TRUE]

\* init(command, args, log_name) when the OS refuses the first CreatePipe, the
\* second CreatePipe and CreateProcessA as no1, no2, no3 say.  No return value
\* of the three calls is looked at.
initWith(w, c, launch, no1, no2, no3) ==
    LET g  == w.nInit + 1
        w0 == [w EXCEPT !.nInit = g,
                        !.ctl[c].command_ = launch[1],
                        !.ctl[c].args_ = launch[2],
                        !.ctl[c].log_name_ = launch[3],
                        !.ctl[c].hProcess = NULL,
                        !.ctl[c].hThread = NULL,
                        !.ctl[c].gen = g]
        p1 == CreatePipe(w0, g, "stdout_read", "stdout_write", ~no1)
        p2 == CreatePipe(p1.w, g, "stdin_read", "stdin_write", ~no2)
        cp == CreateProcessA(p2.w, g, launch, ~no3)
    IN InitFinish(cp.w, c, p1, p2, cp)

\* init(command, args, log_name): the worlds it may end in
init(w, c, launch) ==
    {initWith(w, c, launch, no1, no2, no3) :
        no1 \in BOOLEAN, no2 \in BOOLEAN, no3 \in BOOLEAN}

\* alive(): GetExitCodeProcess says STILL_ACTIVE
alive(w, c) == StillActive(w, w.ctl[c].hProcess)

\* closeHandles()
closeHandles(w, c) ==
    LET w0 == AssertThat(w, w.ctl[c].is_initalized_, "closeHandles")
        w1 == CloseHandle(w0, w.ctl[c].hThread, "closeHandles")
        w2 == CloseHandle(w1, w.ctl[c].hProcess, "closeHandles")
        w3 == CloseHandle(w2, w.ctl[c].child_std_out_, "closeHandles")
    IN CloseHandle(w3, w.ctl[c].child_std_in_, "closeHandles")

\* killProcess() without its first statement: the registry entry stays
killProcessKeepsEntry(w, c) ==
    IF ~w.ctl[c].is_initalized_ THEN w
    ELSE LET h  == w.ctl[c].hProcess
             w2 == OsUse(w, h, "GetExitCodeProcess", "killProcess")
             w3 == IF StillActive(w, h)
                   THEN TerminateProcess(w2, h, "killProcess") ELSE w2
             w4 == closeHandles(w3, c)
         IN [w4 EXCEPT !.ctl[c].is_initalized_ = FALSE]

\* killProcess()
killProcess(w, c) ==
    LET h  == w.ctl[c].hProcess
        w1 == [w EXCEPT !.process_list = RegistryRemove(@, h)]
    IN IF ~w.ctl[c].is_initalized_ THEN w1
       ELSE LET w2 == OsUse(w1, h, "GetExitCodeProcess", "killProcess")
                w3 == IF StillActive(w1, h)
                      THEN TerminateProcess(w2, h, "killProcess") ELSE w2
                w4 == closeHandles(w3, c)
            IN [w4 EXCEPT !.ctl[c].is_initalized_ = FALSE]

\* restart(): killProcess(); init(command_, args_, log_name_);
restart(w, c) ==
    init(killProcess(w, c), c,
         <<w.ctl[c].command_, w.ctl[c].args_, w.ctl[c].log_name_>>)

\* WriteFile(child_std_in_, ...) wrote the whole input: the handle is the
\* open write end of the stdin pipe of a child that still runs
WriteFileOk(w, h) ==
    /\ IsOpen(w, h)
    /\ w.htab[h].obj.kind = "stdin_write"
    /\ w.htab[h].obj.gen \in w.running

\* writeProcess(input), input not empty
writeProcess(w, c) ==
    LET w0 == AssertThat(w, w.ctl[c].is_initalized_, "writeProcess")
        w1 == OsUse(w0, w.ctl[c].hProcess, "GetExitCodeProcess", "alive")
        w2 == IF ~alive(w, c) THEN killProcess(w1, c) ELSE w1
        w3 == OsUse(w2, w.ctl[c].child_std_in_, "WriteFile", "writeProcess")
    IN AssertThat(w3, WriteFileOk(w3, w.ctl[c].child_std_in_), "bytesWritten")

\* readProcess that gives the controller up when it starts
readProcessKilling(w, c) ==
    LET w0 == AssertThat(w, w.ctl[c].is_initalized_, "readProcess")
    IN killProcess(OsUse(w0, w.ctl[c].child_std_out_, "ReadFile", "readProcess"), c)

\* the start of readProcess as the life cycle sees it: the read task calls
\* ReadFile(child_std_out_, ...)
readProcess(w, c) ==
    LET w0 == AssertThat(w, w.ctl[c].is_initalized_, "readProcess")
    IN OsUse(w0, w.ctl[c].child_std_out_, "ReadFile", "readProcess")

\* ~Process()
destroy(w, c) == [killProcess(w, c) EXCEPT !.ctl[c].destroyed = TRUE]

\* A controller as constructed: is_initalized_ = false, the strings empty,
\* pi_ and the two pipe handles not initialized (each holds junk).  Two
\* fields are not data members: gen, the number of the controller's last
\* init call (0: none), and destroyed.
Constructed(junk) ==
    [is_initalized_ |-> FALSE, command_ |-> "", args_ |-> "", log_name_ |-> "",
     hProcess |-> junk, hThread |-> junk, child_std_out_ |-> junk,
     child_std_in_ |-> junk, gen |-> 0, destroyed |-> FALSE]

\* The world before any operation: the controllers as constructed, every
\* uninitialized handle variable holding the value junk.
NewWorld(junk) ==
    [ctl |-> [c \in Controllers |-> Constructed(junk)],
     htab |-> [h \in Handles |-> FreeSlot], running |-> {}, terminated |-> {},
     cmdline |-> <<"", "">>, process_list |-> {}, nInit |-> 0,
     garbage |-> junk, events |-> {}]

\* the life-cycle variables hold world w
IsWorld(w) ==
    /\ ctl = w.ctl
    /\ htab = w.htab
    /\ running = w.running
    /\ terminated = w.terminated
    /\ cmdline = w.cmdline
    /\ process_list = w.process_list
    /\ nInit = w.nInit
    /\ garbage = w.garbage

\* the life-cycle variables become world w after operation op on c
SetWorld(w, op, c) ==
    /\ ctl' = w.ctl
    /\ htab' = w.htab
    /\ running' = w.running
    /\ terminated' = w.terminated
    /\ cmdline' = w.cmdline
    /\ process_list' = w.process_list
    /\ nInit' = w.nInit
    /\ garbage' = w.garbage
    /\ last' = [op |-> op, c |-> c, pre |-> ctl[c].is_initalized_,
                events |-> w.events]

\* the read path at rest
IdleRead ==
    /\ childOut = <<>>
    /\ written = 0
    /\ consumed = 0
    /\ childExited = FALSE
    /\ last_word = <<>>
    /\ threshold = 0
    /\ elapsed = FALSE
    /\ pc = "idle"
    /\ fut = "none"
    /\ task = "none"
    /\ taskRet = "none"
    /\ currentLine = <<>>
    /\ lines = <<>>
    /\ ret = "none"
    /\ nCalls = 0
    /\ callStart = 0
    /\ matchEnd = 0
    /\ carried = FALSE
    /\ history = <<>>

\* the controllers constructed, nothing called yet
InitLife ==
    /\ \E junk \in HandleVals : IsWorld(NewWorld(junk))
    /\ last = [op |-> "none", c |-> 0, pre |-> FALSE, events |-> {}]
    /\ IdleRead

\* The world readProcess is called in: controller 1 after an init in which
\* both pipes and the child process were created.
ReadyWorld ==
    [initWith(NewWorld(NULL), 1, <<"engine", "x", "log1">>, FALSE, FALSE, FALSE)
        EXCEPT !.events = {}]

Init(c, launch) ==
    /\ ~ctl[c].destroyed
    /\ nInit < MaxInits
    /\ \E w \in init(World, c, launch) : SetWorld(w, "init", c)
    /\ UNCHANGED readVars

KillProcess(c) ==
    /\ ~ctl[c].destroyed
    /\ SetWorld(killProcess(World, c), "killProcess", c)
    /\ UNCHANGED readVars

Restart(c) ==
    /\ ~ctl[c].destroyed
    /\ nInit < MaxInits
    /\ \E w \in restart(World, c) : SetWorld(w, "restart", c)
    /\ UNCHANGED readVars

\* alive(), readProcess(), writeProcess() and setAffinity() are called on an
\* initialized controller only (their assert(is_initalized_))
Alive(c) ==
    /\ ~ctl[c].destroyed
    /\ ctl[c].is_initalized_
    /\ SetWorld(OsUse(World, ctl[c].hProcess, "GetExitCodeProcess", "alive"),
                "alive", c)
    /\ UNCHANGED readVars

SetAffinity(c) ==
    /\ ~ctl[c].destroyed
    /\ ctl[c].is_initalized_
    /\ SetWorld(World, "setAffinity", c)
    /\ UNCHANGED readVars

ReadProcess(c) ==
    /\ ~ctl[c].destroyed
    /\ ctl[c].is_initalized_
    /\ SetWorld(readProcess(World, c), "readProcess", c)
    /\ UNCHANGED readVars

WriteProcess(c) ==
    /\ ~ctl[c].destroyed
    /\ ctl[c].is_initalized_
    /\ SetWorld(writeProcess(World, c), "writeProcess", c)
    /\ UNCHANGED readVars

Destroy(c) ==
    /\ ~ctl[c].destroyed
    /\ SetWorld(destroy(World, c), "destroy", c)
    /\ UNCHANGED readVars

\* A child process exits on its own.
ChildDies(g) ==
    /\ g \in running
    /\ running' = running \ {g}
    /\ last' = [op |-> "childDies", c |-> 0, pre |-> FALSE, events |-> {}]
    /\ UNCHANGED <<ctl, htab, terminated, cmdline, process_list, nInit, garbage>>
    /\ UNCHANGED readVars

Next ==
    \/ \E c \in Controllers, launch \in Launches : Init(c, launch)
    \/ \E c \in Controllers : KillProcess(c)
    \/ \E c \in Controllers : Restart(c)
    \/ \E c \in Controllers : Alive(c)
    \/ \E c \in Controllers : SetAffinity(c)
    \/ \E c \in Controllers : ReadProcess(c)
    \/ \E c \in Controllers : WriteProcess(c)
    \/ \E c \in Controllers : Destroy(c)
    \/ \E g \in 1..MaxInits : ChildDies(g)

Spec == InitLife /\ [][Next]_vars

\* Two controllers that share the registry and the host's handle table
SharedControllers == {1, 2}

SharedWorld(junk) ==
    [NewWorld(junk) EXCEPT !.ctl = [c \in SharedControllers |-> Constructed(junk)]]

InitShared ==
    /\ \E junk \in HandleVals : IsWorld(SharedWorld(junk))
    /\ last = [op |-> "none", c |-> 0, pre |-> FALSE, events |-> {}]
    /\ IdleRead

NextShared ==
    \/ \E c \in SharedControllers, launch \in Launches : Init(c, launch)
    \/ \E c \in SharedControllers : KillProcess(c)
    \/ \E c \in SharedControllers : Restart(c)
    \/ \E c \in SharedControllers : WriteProcess(c)
    \/ \E c \in SharedControllers : Destroy(c)
    \/ \E g \in 1..MaxInits : ChildDies(g)

SpecShared == InitShared /\ [][NextShared]_vars

\* readProcess called on the controller of ReadyWorld
InitReadProcess ==
    /\ InitRead
    /\ IsWorld(ReadyWorld)
    /\ last = [op |-> "init", c |-> 1, pre |-> FALSE, events |-> {}]

SpecRead == InitReadProcess /\ [][NextRead]_vars

\* Consecutive readProcess calls on longer streams of one letter and '\n'
LongStreams == SeqsUpTo({"a", LF}, MaxLongLen)

InitReadLong ==
    /\ childOut \in LongStreams
    /\ written = 0
    /\ consumed = 0
    /\ childExited = FALSE
    /\ last_word = <<>>
    /\ threshold = 0
    /\ elapsed = FALSE
    /\ pc = "idle"
    /\ fut = "none"
    /\ task = "none"
    /\ taskRet = "none"
    /\ currentLine = <<>>
    /\ lines = <<>>
    /\ ret = "none"
    /\ nCalls = 0
    /\ callStart = 0
    /\ matchEnd = 0
    /\ carried = FALSE
    /\ history = <<>>
    /\ IsWorld(ReadyWorld)
    /\ last = [op |-> "init", c |-> 1, pre |-> FALSE, events |-> {}]

SpecReadLong == InitReadLong /\ [][NextRead]_vars

\* ------------------------------------------------------- read path: claims
\* A readProcess call has returned to its caller.
Returned == pc = "idle" /\ ret # "none"

\* Some line appended to `lines` during the call starts with last_word
\* (`lines` is cleared when the call starts).
TerminatorSeen == \E i \in 1..Len(lines) : StartsWith(lines[i], last_word)

\* C1: readProcess returns Status::OK if and only if some line appended to
\* outLines during the call starts with terminatorPrefix, and when it returns
\* OK that line is the last element of outLines.
C1_OkIffTerminatorLast ==
    Returned =>
        /\ (ret = "OK") <=> TerminatorSeen
        /\ (ret = "OK") =>
              /\ lines # <<>>
              /\ StartsWith(lines[Len(lines)], last_word)

\* C2: with a non-zero timeout, once wait_for has timed out readProcess
\* returns Status::TIMEOUT to the caller without waiting for the read task to
\* finish: the caller's return is never held back by the task.
C2_TimeoutReturnsWithoutWaiting ==
    (threshold # 0 /\ pc = "return" /\ fut = "timeout") => ENABLED ReadProcessReturn

\* C3: when the read task ended with an I/O error before the deadline (and so
\* before any terminator line), readProcess returns Status::ERR.
C3_IoErrorReturnsErr ==
    (Returned /\ taskRet = "ERR" /\ fut = "ready") => ret = "ERR"

\* C4: a readProcess call with threshold zero never returns Status::TIMEOUT.
C4_ZeroThresholdNeverTimeout ==
    (Returned /\ threshold = 0) => ret # "TIMEOUT"

\* the line terminators
NL == {LF, CR}

\* The non-empty lines of byte stream s, in order: the maximal runs of bytes
\* other than '\r' and '\n' that a '\r' or '\n' follows (cur: the run under way).
RECURSIVE LinesOf(_, _)
LinesOf(s, cur) ==
    IF s = <<>> THEN <<>>
    ELSE IF Head(s) \in NL
    THEN (IF cur = <<>> THEN <<>> ELSE <<cur>>) \o LinesOf(Tail(s), <<>>)
    ELSE LinesOf(Tail(s), Append(cur, Head(s)))

\* ls up to and including its first line that starts with lw (all of ls
\* when there is none)
RECURSIVE ThroughFirst(_, _)
ThroughFirst(ls, lw) ==
    IF ls = <<>> THEN <<>>
    ELSE IF StartsWith(Head(ls), lw) THEN <<Head(ls)>>
    ELSE <<Head(ls)>> \o ThroughFirst(Tail(ls), lw)

IsPrefix(a, b) == Len(a) <= Len(b) /\ SubSeq(b, 1, Len(a)) = a

\* the read task of the call under way (or of the last call) returned
\* Status::OK: a line started with last_word
Matched == task = "done" /\ taskRet = "OK"

\* the bytes the for loop of this call's task has looked at
Scanned ==
    SubSeq(childOut, callStart + 1, IF matchEnd # 0 THEN matchEnd ELSE consumed)

\* C12: in a readProcess call whose task found the terminator, outLines is
\* the sequence of non-empty lines of the child's output from the first byte
\* this call consumed up to and including the first line that starts with
\* last_word, however the bytes were split over the ReadFile calls.
C12_LinesUpToTerminator ==
    Matched =>
        lines = ThroughFirst(
                    LinesOf(SubSeq(childOut, callStart + 1, Len(childOut)), <<>>),
                    last_word)

\* a call returned OK with two lines, and a line of it came in two ReadFile
\* calls
W12_LineSpansChunks ==
    /\ Returned /\ ret = "OK" /\ Matched
    /\ carried
    /\ Len(lines) = 2

\* C13: whatever the child wrote and whatever the call returned, no element
\* of outLines (of the call under way or of a call that returned) is the empty
\* string.
C13_NoEmptyLine ==
    /\ \A i \in 1..Len(lines) : lines[i] # <<>>
    /\ \A k \in 1..Len(history) :
          \A i \in 1..Len(history[k].lines) : history[k].lines[i] # <<>>

\* a call returned with a line after its task looked at two line terminators
\* in a row
W13_TerminatorsInARow ==
    /\ Returned
    /\ lines # <<>>
    /\ \E i \in 1..(Len(Scanned) - 1) : Scanned[i] \in NL /\ Scanned[i + 1] \in NL

\* s with every "\r\n" pair and every single '\r' written as '\n'
RECURSIVE Recode(_)
Recode(s) ==
    IF s = <<>> THEN <<>>
    ELSE IF Head(s) = CR /\ Len(s) >= 2 /\ s[2] = LF
    THEN <<LF>> \o Recode(Tail(Tail(s)))
    ELSE IF Head(s) = CR THEN <<LF>> \o Recode(Tail(s))
    ELSE <<Head(s)>> \o Recode(Tail(s))

\* C14: '\r', '\n' and "\r\n" split lines alike: whatever mix of the three
\* ends the lines and however the bytes (a "\r\n" pair too) are split over
\* the ReadFile calls, outLines, the line under way and whether the
\* terminator was found are those of the same lines each ended by one '\n'
\* and read in one piece.
C14_TerminatorsAlike ==
    task # "none" =>
        LET r == ScanBuffer(Recode(Scanned), <<>>, <<>>, last_word)
        IN /\ lines = r.lines
           /\ currentLine = r.currentLine
           /\ Matched <=> r.matched

\* a ReadFile ended on the '\r' of a "\r\n" pair, which closed a line; the
\* '\n' is in the pipe for the next ReadFile
W14_PairSplitOverChunks ==
    /\ task = "running"
    /\ lines # <<>> /\ currentLine = <<>>
    /\ consumed > callStart /\ consumed < written
    /\ childOut[consumed] = CR /\ childOut[consumed + 1] = LF

\* C15: a controller has at most one read task in flight: when readProcess
\* is not under way no read task runs (so none of an earlier call runs beside
\* a later call's), also after a call that returned TIMEOUT, and outLines
\* holds only lines of bytes this call consumed.
C15_OneReadTask ==
    /\ pc = "idle" => task # "running"
    /\ IsPrefix(lines, LinesOf(SubSeq(childOut, callStart + 1, consumed), <<>>))

\* the task of the second call runs and has a line, after the first call
\* returned TIMEOUT and its task found the terminator
W15_ReadAfterTimeout ==
    /\ nCalls = 2 /\ task = "running" /\ lines # <<>>
    /\ history[1].ret = "TIMEOUT" /\ history[1].taskRet = "OK"

\* the outLines of the calls that returned, one after the other
RECURSIVE AllLines(_)
AllLines(h) == IF h = <<>> THEN <<>> ELSE Head(h).lines \o AllLines(Tail(h))

\* C17: when every readProcess call so far returned OK after its task found
\* the terminator, their outLines one after the other are the non-empty lines
\* the child wrote up to the terminator the last call stopped at.
C17_NoOutputLost ==
    (/\ pc = "idle" /\ history # <<>>
     /\ \A k \in 1..Len(history) :
           history[k].ret = "OK" /\ history[k].taskRet = "OK")
    => AllLines(history)
         = LinesOf(SubSeq(childOut, 1, history[Len(history)].upto), <<>>)

\* ----------------------------------------------------- life cycle: claims
\* what event `what` at `site` the last operation met
Met(what, site) == \E e \in last.events : e.what = what /\ e.site = site
\* the kinds of handle init keeps in the controller
KeptKinds == {"hProcess", "hThread", "stdout_read", "stdin_write"}
\* the last operation called `what` at `site` on a dangling handle that was
\* one of the four an init kept
MetOnKept(what, site) ==
    \E e \in last.events : e.what = what /\ e.site = site /\ e.kind \in KeptKinds
\* the last operation was op, called on controller c
Did(op, c) == last.op = op /\ last.c = c
\* the handle objects init number g obtained and kept
KeptObjs(g) ==
    {[gen |-> g, kind |-> k] : k \in KeptKinds}
\* the handle objects that are open
OpenObjs == {htab[h].obj : h \in {k \in Handles : htab[k].open}}

\* C5: when the OS fails to create the child process or one of its pipes,
\* init leaves is_initalized_ false and adds no entry to the registry.
C5_SpawnFailureLeavesUninitialized ==
    \A c \in Controllers :
        (/\ Did("init", c)
         /\ \/ Met("CreateProcessA failed", "init")
            \/ Met("CreatePipe failed", "init"))
        => /\ ~ctl[c].is_initalized_
           /\ ctl[c].hProcess \notin process_list

\* C6: immediately after init returns the controller's process handle is in
\* the registry; immediately after killProcess returns it is not, whether or
\* not the controller was initialized when killProcess was called.
C6_RegistryAfterInitAndKill ==
    \A c \in Controllers :
        /\ Did("init", c) => ctl[c].hProcess \in process_list
        /\ Did("killProcess", c) => ctl[c].hProcess \notin process_list

\* killProcess was called on a controller that was not initialized, after an
\* init, and init had put a handle into the registry before
W6_KillWhenNotInitialized ==
    /\ Did("killProcess", 1)
    /\ ~last.pre
    /\ ctl[1].gen # 0
    /\ ctl[1].hProcess # NULL
    /\ ctl[1].hProcess \notin process_list

\* C7: killProcess is idempotent: in every operation each handle an init
\* obtained is closed at most once (closeHandles never calls CloseHandle on a
\* handle that is closed already) and TerminateProcess is called at most once
\* per child; a second killProcess in a row changes no state and meets no
\* error.
C7_KillIdempotent ==
    /\ [](/\ ~MetOnKept("CloseHandle", "closeHandles")
          /\ ~Met("TerminateProcess again", "killProcess"))
    /\ [][\A c \in Controllers :
            (Did("killProcess", c) /\ last'.op = "killProcess" /\ last'.c = c)
            => /\ UNCHANGED <<ctl, htab, running, terminated, process_list>>
               /\ last'.events = {}]_vars

\* C8: after killProcess on an initialized controller the child its last init
\* spawned is not running, the four handles that init kept are closed and
\* is_initalized_ is false, and closeHandles ran while is_initalized_ was
\* still true.
C8_KillCompletes ==
    \A c \in Controllers :
        (Did("killProcess", c) /\ last.pre)
        => /\ ctl[c].gen \notin running
           /\ KeptObjs(ctl[c].gen) \cap OpenObjs = {}
           /\ ~ctl[c].is_initalized_
           /\ ~Met("assert", "closeHandles")

\* C9: after a controller is destroyed no child process it spawned is running
\* and no handle it obtained is open (Spec has one controller: every child
\* and every handle is its own).  Stated for the runs in which an
\* uninitialized handle variable holds NULL, where a failed CreatePipe lets
\* init close no handle of its own by mistake.
C9_NoLeakAfterDestroy ==
    \A c \in Controllers :
        (garbage = NULL /\ Did("destroy", c)) => (running = {} /\ OpenObjs = {})

\* C11: is_initalized_ goes from false to true only in init (called directly
\* or by restart) and from true to false only in killProcess (called directly
\* or by restart, writeProcess or ~Process); alive, setAffinity and
\* readProcess leave is_initalized_, the stored handles and the registry as
\* they were.
C11_FlagFrame ==
    [][\A c \in Controllers :
         /\ (~ctl[c].is_initalized_ /\ ctl'[c].is_initalized_)
            => (last'.op \in {"init", "restart"} /\ last'.c = c)
         /\ (ctl[c].is_initalized_ /\ ~ctl'[c].is_initalized_)
            => (last'.op \in {"killProcess", "restart", "writeProcess", "destroy"}
                /\ last'.c = c)
         /\ last'.op \in {"alive", "setAffinity", "readProcess"}
            => (ctl' = ctl /\ process_list' = process_list)]_vars

\* readProcess was called on a controller whose init spawned a child and
\* registered it; the controller is initialized and registered afterwards
W11_ReadLeavesInitialized ==
    /\ Did("readProcess", 1)
    /\ ctl[1].is_initalized_
    /\ ctl[1].hProcess # NULL
    /\ ctl[1].hProcess \in process_list

\* the four handles controller c stores are not NULL (where an uninitialized
\* handle variable holds NULL: the last init of c got all of them from the OS)
GotAll(c) ==
    /\ ctl[c].hProcess # NULL
    /\ ctl[c].hThread # NULL
    /\ ctl[c].child_std_out_ # NULL
    /\ ctl[c].child_std_in_ # NULL

\* the handle objects that are open after the step
OpenObjsNext == {htab'[h].obj : h \in {k \in Handles : htab'[k].open}}

\* C16: writeProcess on an initialized controller whose child (the one its
\* last init spawned) has exited runs killProcess (the handle leaves the
\* registry, the handles that init kept are closed, is_initalized_ becomes
\* false) and still calls WriteFile on the stored stdin handle, by then
\* closed; writeProcess while that child runs does not run killProcess and
\* leaves is_initalized_ true.
C16_WriteOnDeadChild ==
    [][\A c \in Controllers :
         (last'.op = "writeProcess" /\ last'.c = c /\ ctl[c].is_initalized_)
         => /\ (ctl[c].hProcess # NULL /\ ctl[c].gen \notin running)
               => /\ ctl'[c].hProcess \notin process_list'
                  /\ KeptObjs(ctl[c].gen) \cap OpenObjsNext = {}
                  /\ ~ctl'[c].is_initalized_
                  /\ IsOpen(World, ctl[c].child_std_in_)
                       => \E e \in last'.events :
                             e.what = "WriteFile" /\ e.kind = "stdin_write"
            /\ (ctl[c].gen \in running)
               => /\ ctl'[c].is_initalized_
                  /\ htab' = htab
                  /\ process_list' = process_list]_vars

\* C18: when alive, setAffinity, readProcess and writeProcess are called on
\* initialized controllers only, no operation calls ReadFile, WriteFile,
\* GetExitCodeProcess, TerminateProcess or CloseHandle on a handle that has
\* been closed.  Stated for the runs in which an uninitialized handle variable
\* holds NULL, and for operations on a controller whose last init got both
\* pipes and the child process from the OS.
C18_NoUseOfClosedHandle ==
    \A c \in Controllers :
        (garbage = NULL /\ last.c = c /\ GotAll(c))
        => \A e \in last.events : e.kind = "none"

\* C19: with several controllers on one registry, the registry holds exactly
\* the process handles of the initialized controllers.  Stated for the runs
\* in which an uninitialized handle variable holds NULL, no controller was
\* given to init twice and the init of every initialized controller got both
\* pipes and the child process from the OS.
C19_RegistryExact ==
    LET inited == {c \in SharedControllers : ctl[c].is_initalized_}
    IN (/\ DOMAIN ctl = SharedControllers
        /\ garbage = NULL
        /\ nInit = Cardinality({c \in SharedControllers : ctl[c].gen # 0})
        /\ \A c \in inited : GotAll(c))
       => process_list = {ctl[c].hProcess : c \in inited}

\* the world after the step
WorldNext ==
    [ctl |-> ctl', htab |-> htab', running |-> running',
     terminated |-> terminated', cmdline |-> cmdline',
     process_list |-> process_list', nInit |-> nInit', garbage |-> garbage',
     events |-> last'.events]

\* C10: restart, called after at least one init, ends in a state that
\* killProcess followed by init with the stored command, args and log name
\* can end in; the child of the last init is not running and the handles that
\* init kept are closed; and when CreateProcessA succeeded alive() is true.
C10_RestartIsKillThenInit ==
    [][\A c \in Controllers :
         (last'.op = "restart" /\ last'.c = c /\ ctl[c].gen # 0)
         => /\ WorldNext \in init(killProcess(World, c), c,
                                  <<ctl[c].command_, ctl[c].args_, ctl[c].log_name_>>)
            /\ ctl[c].gen \notin running'
            /\ KeptObjs(ctl[c].gen) \cap {htab'[h].obj : h \in {k \in Handles : htab'[k].open}} = {}
            /\ ((\A e \in last'.events : e.what # "CreateProcessA failed")
                => alive(WorldNext, c))]_vars

====
